---- MODULE Spec2Model ----
(***************************************************************************)
(* A model of git-pull-request.py: the pull-request branch naming, the     *)
(* per-pull-request metadata files and the update / continue / close /     *)
(* merge commands around them.                                             *)
(*                                                                         *)
(* Text is a sequence of one-character strings.  A python function that    *)
(* changes the world is an operator from a world record to a world record; *)
(* an exception is the field err of the world, and every statement after a *)
(* raise is skipped.  The script runs under python 3 (line 1).             *)
(***************************************************************************)
EXTENDS Integers, Sequences, FiniteSets, TLC

VARIABLES
    options,      \* the options dictionary after load_options
    prs,          \* the pull requests on the remote
    branches,     \* refs/heads of the local repository: branch -> commit, 0 = no such ref
    mbase,        \* what `git merge-base <update-branch> <branch>` answers
    head,         \* the branch checked out in each checkout
    cwd,          \* the checkout the process runs in
    inProgress,   \* git's in-progress marker of each checkout
    records,      \* the files git-pull-request-treeish-<id>
    origDirFile,  \* <work-dir>/.git/original_dir_path
    chdirFile,    \* the file git-pull-request-chdir
    nextCommit,   \* the next commit git creates
    out,          \* what the last command did: its error, git and API calls
    nm,           \* a function of the script applied to one input
    run           \* two processes of the script at once: where each of them is

vars == <<options, prs, branches, mbase, head, cwd, inProgress, records,
          origDirFile, chdirFile, nextCommit, out, nm, run>>

-----------------------------------------------------------------------------
(* Bounds *)

MaxNumber == 10      \* pull-request numbers given to the naming functions
MaxRefLen == 5       \* length of the head refs given to the naming functions
MaxCommit == 4       \* commits the repository and the remote ever hold

-----------------------------------------------------------------------------
(* Text *)

Upper == {"A","B","C","D","E","F","G","H","I","J","K","L","M",
          "N","O","P","Q","R","S","T","U","V","W","X","Y","Z"}

Digit == {"0","1","2","3","4","5","6","7","8","9"}

DigitChars == <<"0","1","2","3","4","5","6","7","8","9">>

\* a decimal digit that is not ASCII: ARABIC-INDIC DIGIT THREE, one character
ArabicIndicThree == "U+0663"

\* \d in a pattern for str: every Unicode decimal digit
DecimalDigit == Digit \cup {ArabicIndicThree}

\* int() reads every decimal digit
DigitValue(c) ==
    IF c = ArabicIndicThree THEN 3
    ELSE (CHOOSE i \in 1..Len(DigitChars) : DigitChars[i] = c) - 1

RECURSIVE Run(_, _, _)
\* the length of the longest run of characters of class starting at text[i]
Run(text, i, class) ==
    IF i <= Len(text) /\ text[i] \in class THEN 1 + Run(text, i + 1, class) ELSE 0

RECURSIVE IntToStr(_)
\* "%s" % n for an integer n >= 0
IntToStr(n) ==
    IF n < Len(DigitChars) THEN <<DigitChars[n + 1]>>
    ELSE IntToStr(n \div Len(DigitChars)) \o <<DigitChars[(n % Len(DigitChars)) + 1]>>

RECURSIVE StrToInt(_)
\* int(s) for a non-empty string of digits
StrToInt(s) ==
    IF Len(s) = 0 THEN 0
    ELSE StrToInt(SubSeq(s, 1, Len(s) - 1)) * Len(DigitChars) + DigitValue(s[Len(s)])

StartsWith(text, prefix) ==
    Len(text) >= Len(prefix) /\ SubSeq(text, 1, Len(prefix)) = prefix

PullRequestPrefix == <<"p","u","l","l","-","r","e","q","u","e","s","t","-">>

MinTicketLetters == 3

\* the length of the match of [A-Z]{3,}-<digits>+ that starts at text[i], 0 when none
MatchAt(text, i, digits) ==
    LET u == Run(text, i, Upper)
        d == Run(text, i + u + 1, digits)
    IN  IF u >= MinTicketLetters /\ i + u <= Len(text) /\ text[i + u] = "-" /\ d >= 1
        THEN u + 1 + d
        ELSE 0

\* re.search: the leftmost match, <<>> when there is none
Search(text, digits) ==
    LET hits == {i \in 1..Len(text) : MatchAt(text, i, digits) > 0}
    IN  IF hits = {} THEN <<>>
        ELSE LET i == CHOOSE j \in hits : \A k \in hits : j <= k
             IN  SubSeq(text, i, i + MatchAt(text, i, digits) - 1)

\* the pattern is [A-Z]{3,}-\d+
get_jira_ticket(text) == Search(text, DecimalDigit)

\* the ticket comes before the number
build_branch_name_ticket_first(pull_request) ==
    LET ref == get_jira_ticket(pull_request.head.ref)
        jira_ticket == IF ref = <<>> THEN get_jira_ticket(pull_request.title) ELSE ref
    IN  IF jira_ticket # <<>>
        THEN PullRequestPrefix \o jira_ticket \o <<"-">> \o IntToStr(pull_request.number)
        ELSE PullRequestPrefix \o IntToStr(pull_request.number)

build_branch_name(pull_request) ==
    LET branch_name == PullRequestPrefix \o IntToStr(pull_request.number)
        ref == get_jira_ticket(pull_request.head.ref)
        jira_ticket == IF ref = <<>> THEN get_jira_ticket(pull_request.title) ELSE ref
    IN  IF jira_ticket # <<>> THEN branch_name \o <<"-">> \o jira_ticket
        ELSE branch_name

build_pull_request_title(branch_name) ==
    LET jira_ticket == get_jira_ticket(branch_name)
    IN  IF jira_ticket # <<>> THEN jira_ticket ELSE branch_name

NoID == -1

get_pull_request_ID(branch_name) ==
    LET d == Run(branch_name, Len(PullRequestPrefix) + 1, DecimalDigit)
    IN  IF StartsWith(branch_name, PullRequestPrefix) /\ d >= 1
        THEN StrToInt(SubSeq(branch_name, Len(PullRequestPrefix) + 1,
                             Len(PullRequestPrefix) + d))
        ELSE NoID

\* get_current_branch_name's test of branch_name[0:13]
HasPullRequestPrefix(branch_name) ==
    SubSeq(branch_name, 1, IF Len(branch_name) < Len(PullRequestPrefix)
                           THEN Len(branch_name) ELSE Len(PullRequestPrefix))
        = PullRequestPrefix

-----------------------------------------------------------------------------
(* The scenario: the pull requests the remote may hold, a repository with    *)
(* the update branch and one hand-made branch whose name starts like a       *)
(* pull-request branch but carries no number.                                *)

None == "<None>"

Str_master == <<"m","a","s","t","e","r">>
Str_fix == <<"f","i","x">>
Str_JIRA_99_fix == <<"J","I","R","A","-","9","9","-","f","i","x">>
Str_pull_request_x == PullRequestPrefix \o <<"x">>

PullRequests == {7, 42}

HeadRef(id) == IF id = 42 THEN Str_JIRA_99_fix ELSE Str_fix

Commits == 1..MaxCommit

\* a 40-digit commit name, cut here to a few digits more than the short form
Sha(c) == IntToStr(c) \o <<"a","b","c","d","e","f","a","b","c","d","e">>

ShortLen == 10

Short(sha) == SubSeq(sha, 1, IF Len(sha) < ShortLen THEN Len(sha) ELSE ShortLen)

\* the pull request as the API returns it
PullRequest(w, id) ==
    [number |-> id,
     title  |-> Str_fix,
     state  |-> w.prs[id].state,
     head   |-> [ref |-> HeadRef(id), sha |-> Sha(w.prs[id].head)],
     base   |-> [ref |-> Str_master, sha |-> Sha(w.prs[id].base)],
     user   |-> [login |-> "author"]]

BranchOf(id) ==
    build_branch_name([number |-> id, title |-> Str_fix, head |-> [ref |-> HeadRef(id)]])

Branches == {Str_master, Str_pull_request_x} \cup {BranchOf(id) : id \in PullRequests}

Dirs == {"orig", "work"}

UpdateMethods == {"merge", "rebase", "squash"}

-----------------------------------------------------------------------------
(* The world of one command, and its exceptions *)

\* `v = w` and then F(v): the value is computed once
Bind(w, F(_)) == CHOOSE r \in {F(v) : v \in {w}} : TRUE

Raise(w, e) == [w EXCEPT !.err = e]

Ok(w) == w.err = "none"

\* the statement after w runs when w raised nothing
Try(w, F(_)) == Bind(w, LAMBDA v : IF Ok(v) THEN F(v) ELSE v)

\* ret = os.system(...); if ret != 0: raise UserWarning(e)
Check(w, e) == Bind(w, LAMBDA v : IF Ok(v) /\ v.ret # 0 THEN Raise(v, e) ELSE v)

UserWarnings == {"InvalidBranch", "WorkDir", "Resolve", "Checkout", "CleanWorkDir",
                 "SyncFailed", "FetchFailed", "DeleteBranch", "MergeFailed",
                 "PushFailed", "InvalidResponse"}

Exists(w, b) == b \in DOMAIN w.branches /\ w.branches[b] # 0

CurrentBranch(w) == w.head[w.cwd]

\* git rev-parse HEAD
HeadCommit(w) == IF Exists(w, CurrentBranch(w)) THEN w.branches[CurrentBranch(w)] ELSE 0

get_current_branch_name(w, ensure_pull_request) ==
    IF ensure_pull_request /\ ~HasPullRequestPrefix(CurrentBranch(w))
    THEN Raise(w, "InvalidBranch")
    ELSE [w EXCEPT !.val = CurrentBranch(w)]

\* options["work-dir"], when the directory exists
get_work_dir(w) == w.options.work_dir

UpdateBranch(w) == w.options.update_branch

\* the work directory is a git-new-workdir checkout: its .git/config is a link
in_work_dir(w) == get_work_dir(w) /\ w.cwd = "work"

-----------------------------------------------------------------------------
(* git: os.system returns the exit code, which the oracle x.gitFail may turn *)
(* into a failure for one call of the command                                *)

MaxGitCalls == 3

GitFails(w) ==
    \/ w.x.gitFail = Len(w.git) + 1
    \/ w.x.gitAlso /\ w.x.gitFail + 1 = Len(w.git) + 1

GitRet(w, possible) == IF possible /\ ~GitFails(w) THEN 0 ELSE 1

Git(w, cmd, ret) == [w EXCEPT !.git = Append(@, [cmd |-> cmd, ret |-> ret]), !.ret = ret]

git_checkout(w, b) ==
    LET ret == GitRet(w, Exists(w, b) /\ w.inProgress[w.cwd] = "none")
    IN  Git(IF ret = 0 THEN [w EXCEPT !.head[w.cwd] = b] ELSE w, "checkout", ret)

git_reset_clean(w) ==
    LET ret == GitRet(w, TRUE)
    IN  Git(IF ret = 0 THEN [w EXCEPT !.inProgress[w.cwd] = "none"] ELSE w, "reset-clean", ret)

git_branch_D(w, b) ==
    LET ret == GitRet(w, Exists(w, b) /\ CurrentBranch(w) # b)
    IN  Git(IF ret = 0 THEN [w EXCEPT !.branches[b] = 0] ELSE w, "branch-D", ret)

\* git show-ref --verify refs/heads/<b>: not subject to the oracle
git_show_ref(w, b) == [w EXCEPT !.ret = IF Exists(w, b) THEN 0 ELSE 1]

\* git fetch <url> <remote ref>:<b> of pull request id
git_fetch(w, id, b) ==
    LET ret == GitRet(w, ~Exists(w, b))
    IN  Git(IF ret = 0
            THEN [w EXCEPT !.branches[b] = w.prs[id].head, !.mbase[b] = w.prs[id].base]
            ELSE w, "fetch", ret)

\* git merge <update-branch> / git rebase <update-branch> on the current branch;
\* any other update-method is no git command and exits non-zero
git_update_method(w) ==
    LET b == CurrentBranch(w)
        m == w.options.update_method
        upToDate == w.mbase[b] = w.branches[UpdateBranch(w)]
        ret == GitRet(w, m \in {"merge", "rebase"} /\ w.inProgress[w.cwd] = "none"
                         /\ (upToDate \/ w.nextCommit <= MaxCommit))
    IN  Git(IF ret = 0
            THEN IF upToDate THEN w
                 ELSE [w EXCEPT !.branches[b] = w.nextCommit,
                                !.mbase[b] = w.branches[UpdateBranch(w)],
                                !.nextCommit = @ + 1]
            ELSE IF m \in {"merge", "rebase"} /\ ~upToDate /\ w.inProgress[w.cwd] = "none"
                 THEN [w EXCEPT !.inProgress[w.cwd] = m]
                 ELSE w,
            "update-method", ret)

\* git commit: concludes a merge whose conflicts are resolved, or commits what is staged
git_commit(w) ==
    LET b == CurrentBranch(w)
        merging == w.inProgress[w.cwd] = "merge"
        ret == GitRet(w, w.inProgress[w.cwd] # "rebase" /\ w.nextCommit <= MaxCommit
                         /\ Exists(w, b))
    IN  Git(IF ret = 0
            THEN [w EXCEPT !.branches[b] = w.nextCommit,
                           !.mbase[b] = IF merging THEN w.branches[UpdateBranch(w)] ELSE @,
                           !.nextCommit = @ + 1,
                           !.inProgress[w.cwd] = "none"]
            ELSE w, "commit", ret)

git_rebase_continue(w) ==
    LET b == CurrentBranch(w)
        ret == GitRet(w, w.inProgress[w.cwd] = "rebase" /\ w.nextCommit <= MaxCommit)
    IN  Git(IF ret = 0
            THEN [w EXCEPT !.branches[b] = w.nextCommit,
                           !.mbase[b] = w.branches[UpdateBranch(w)],
                           !.nextCommit = @ + 1,
                           !.inProgress[w.cwd] = "none"]
            ELSE w, "rebase-continue", ret)

\* git merge <b> into the checked-out update branch
git_merge_into_current(w, b) ==
    LET ret == GitRet(w, Exists(w, b) /\ w.inProgress[w.cwd] = "none")
    IN  Git(IF ret = 0 /\ w.branches[b] # w.mbase[b]
            THEN [w EXCEPT !.branches[CurrentBranch(w)] = w.branches[b]]
            ELSE w, "merge", ret)

git_push(w, b) == Git(w, "push", GitRet(w, Exists(w, b)))

-----------------------------------------------------------------------------
(* The remote API: the oracle x.apiFail names the call of the command that   *)
(* goes wrong, x.apiKind how                                                 *)

ApiFailures == {"non2xx", "empty", "malformed", "neterr"}

MaxApiCalls == 2

ApiOutcome(w) == IF w.x.apiFail = Len(w.api) + 1 THEN w.x.apiKind ELSE "ok"

\* github_request: a failed connection leaves response None, whose .status is read
github_request(w, call) ==
    LET o == ApiOutcome(w)
        w1 == [w EXCEPT !.api = Append(@, [call |-> call, outcome |-> o]), !.resp = o]
    IN  IF o = "neterr" THEN Raise(w1, "AttributeError")
        ELSE IF o = "empty" THEN Raise(w1, "InvalidResponse")
        ELSE w1

\* json.loads of the body: an error body of a non-2xx answer is JSON too
github_json_request(w, call) ==
    Try(github_request(w, call), LAMBDA w1 :
        IF w1.resp = "malformed" THEN Raise(w1, "JSONDecodeError") ELSE w1)

get_pull_request(w, id) == github_json_request(w, [op |-> "get", id |-> id])

\* display_pull_request_minimal reads pull_request["user"]
display_pull_request(w) ==
    Try(w, LAMBDA w1 : IF w1.resp = "non2xx" THEN Raise(w1, "KeyError") ELSE w1)

-----------------------------------------------------------------------------
(* The metadata files git-pull-request-treeish-<id> *)

FileAbsent == [st |-> "absent"]
FileEmpty == [st |-> "empty"]
JsonFile(data) == [st |-> "json", data |-> data]

FileOf(w, id) == IF id \in DOMAIN w.records THEN w.records[id] ELSE FileAbsent

Put(dict, key, value) ==
    [k \in DOMAIN dict \cup {key} |-> IF k = key THEN value ELSE dict[k]]

\* open() of a missing file and json.load() of an empty one raise
ReadException(file) ==
    IF file.st = "absent" THEN "FileNotFoundError"
    ELSE IF file.st = "empty" THEN "JSONDecodeError"
    ELSE "none"

\* a handler that lets everything but a missing file through
ExceptIOErrorOnly(w, exc) ==
    IF exc = "FileNotFoundError" THEN [w EXCEPT !.val = None] ELSE Raise(w, exc)

\* meta's `except Exception: log(...)`: the function returns None
MetaExcept(w, exc) == [w EXCEPT !.val = None]

\* the handler lets the exception through
CloseExceptRaising(w, exc) == Raise(w, exc)

\* close_pull_request's `except Exception: pass`
CloseExcept(w, exc) == w

Read(w, by, id) ==
    [w EXCEPT !.reads = Append(@, [by |-> by, id |-> id, saw |-> FileOf(w, id).st,
                                   exc |-> ReadException(FileOf(w, id))])]

\* meta(key): the value of a top-level key of the current branch's record
meta_get(w, key) ==
    LET id == get_pull_request_ID(CurrentBranch(w))
        file == FileOf(w, id)
    IN  IF id = NoID THEN [w EXCEPT !.val = None]
        ELSE IF ReadException(file) # "none"
        THEN MetaExcept(Read(w, "meta", id), ReadException(file))
        ELSE [Read(w, "meta", id) EXCEPT
                 !.val = IF key \in DOMAIN file.data THEN file.data[key] ELSE ""]

\* meta(key, value): the process may die between f.truncate(0) and json.dump
meta(w, key, value) ==
    LET id == get_pull_request_ID(CurrentBranch(w))
        file == FileOf(w, id)
    IN  IF id = NoID THEN [w EXCEPT !.val = None]
        ELSE IF ReadException(file) # "none"
        THEN MetaExcept(Read(w, "meta", id), ReadException(file))
        ELSE IF w.x.kill
        THEN Raise([Read(w, "meta", id) EXCEPT !.records[id] = FileEmpty], "Killed")
        ELSE [Read(w, "meta", id) EXCEPT
                 !.records[id] = JsonFile(Put(file.data, key, value)), !.val = value]

CommitPair(parent_commit, head_commit) ==
    [parent_commit |-> parent_commit, head_commit |-> head_commit]

\* lines 2042-2045 of update_meta
branch_treeish(parent_commit, head_commit) ==
    IF parent_commit = head_commit THEN head_commit
    ELSE parent_commit \o <<".", ".">> \o head_commit

\* os.popen("git merge-base <update-branch> <b>").read().strip()[0:10]: a git
\* that exits non-zero prints nothing, and the exit code is not looked at
git_merge_base(w, b) ==
    IF w.x.noBase THEN [w EXCEPT !.popen = Append(@, "merge-base"), !.val = <<>>]
    ELSE [w EXCEPT !.val = Short(Sha(w.mbase[b]))]

\* the pair is stored under the key of the fetch
update_meta_as_original(w) ==
    Try(get_current_branch_name(w, TRUE), LAMBDA w1 :
    Bind(git_merge_base(w1, w1.val), LAMBDA w2 :
    Try(meta(w2, "original", CommitPair(w2.val, Short(Sha(HeadCommit(w2))))), LAMBDA w3 :
        [w3 EXCEPT !.val = branch_treeish(w2.val, Short(Sha(HeadCommit(w2))))])))

\* what meta returned is dropped: the function returns the treeish it prints
update_meta(w) ==
    Try(get_current_branch_name(w, TRUE), LAMBDA w1 :
    Bind(git_merge_base(w1, w1.val), LAMBDA w2 :
    Try(meta(w2, "updated", CommitPair(w2.val, Short(Sha(HeadCommit(w2))))), LAMBDA w3 :
        [w3 EXCEPT !.val = branch_treeish(w2.val, Short(Sha(HeadCommit(w2))))])))

-----------------------------------------------------------------------------
(* update, continue-update *)

\* chdir(dir): open(..., "wb") empties the file, f.write takes bytes only
chdir(w, dir, isBytes) ==
    IF isBytes THEN [w EXCEPT !.chdirFile = dir]
    ELSE Raise([w EXCEPT !.chdirFile = ""], "TypeError")

\* the file is read "rb": its bytes never equal "", so an empty file is returned as is
get_original_dir_path(w) ==
    IF w.origDirFile = "missing" THEN Raise(w, "FileNotFoundError")
    ELSE [w EXCEPT !.val = w.origDirFile]

os_chdir(w, dir) ==
    IF dir \in Dirs THEN [w EXCEPT !.cwd = dir] ELSE Raise(w, "FileNotFoundError")

\* lines 1004-1028 of complete_update
leave_work_dir(w, branch_name) ==
    Try(Check(git_checkout(w, UpdateBranch(w)), "Checkout"), LAMBDA w1 :
    Try(get_original_dir_path(w1), LAMBDA w2 :
    Try(os_chdir(w2, w2.val), LAMBDA w3 :
    Try(chdir(w3, w2.val, TRUE), LAMBDA w4 :
        IF CurrentBranch(w4) = branch_name
        THEN Check(git_reset_clean(w4), "SyncFailed")
        ELSE Check(git_checkout(w4, branch_name), "Checkout")))))

\* the pair is not stored
complete_update_without_meta(w, branch_name) ==
    Try(IF in_work_dir(w) THEN leave_work_dir(w, branch_name) ELSE w, LAMBDA w1 :
        [w1 EXCEPT !.completed = TRUE])

complete_update(w, branch_name) ==
    Try(IF in_work_dir(w) THEN leave_work_dir(w, branch_name) ELSE w, LAMBDA w1 :
    Try(update_meta(w1), LAMBDA w2 :
        [w2 EXCEPT !.completed = TRUE]))

\* f.write(original_dir_path) on a file opened "wb": python 3 takes bytes only
write_original_dir_path(w, path, isBytes) ==
    IF isBytes THEN [w EXCEPT !.origDirFile = path]
    ELSE Raise([w EXCEPT !.origDirFile = ""], "TypeError")

\* lines 1988-1999 of update_branch: get_git_base_path() is a str
enter_work_dir(w) ==
    Try(write_original_dir_path([w EXCEPT !.cwd = "work"], w.cwd, FALSE), LAMBDA w1 :
        Check(git_reset_clean(w1), "CleanWorkDir"))

\* lines 2001-2015 of update_branch: the checkout, then the merge or rebase
run_update_method(w, branch_name) ==
    Try(Check(git_checkout(w, branch_name), "Checkout"), LAMBDA w1 :
        git_update_method(w1))

\* lines 2017-2023 of update_branch: work_dir is a str
update_failed(w) ==
    Try(IF get_work_dir(w) THEN chdir(w, "work", FALSE) ELSE w, LAMBDA w1 :
        Raise(w1, "Resolve"))

\* complete_update runs whatever the merge or rebase returned
update_branch_ignoring_ret(w, branch_name) ==
    IF in_work_dir(w) THEN Raise(w, "WorkDir")
    ELSE Try(IF get_work_dir(w) THEN enter_work_dir(w) ELSE w, LAMBDA w1 :
         Try(run_update_method(w1, branch_name), LAMBDA w2 :
             complete_update(w2, branch_name)))

\* the test of the work directory is missing
update_branch_unguarded(w, branch_name) ==
    Try(IF get_work_dir(w) THEN enter_work_dir(w) ELSE w, LAMBDA w1 :
    Try(run_update_method(w1, branch_name), LAMBDA w2 :
        IF w2.ret # 0 THEN update_failed(w2)
        ELSE complete_update(w2, branch_name)))

update_branch(w, branch_name) ==
    IF in_work_dir(w) THEN Raise(w, "WorkDir")
    ELSE Try(IF get_work_dir(w) THEN enter_work_dir(w) ELSE w, LAMBDA w1 :
         Try(run_update_method(w1, branch_name), LAMBDA w2 :
             IF w2.ret # 0 THEN update_failed(w2)
             ELSE complete_update(w2, branch_name)))

\* a completion command that exits non-zero is answered with a reset
continue_update_resetting(w) ==
    Try(IF w.options.update_method = "merge" THEN git_commit(w)
        ELSE IF w.options.update_method = "rebase" THEN git_rebase_continue(w)
        ELSE Raise(w, "UnboundLocalError"), LAMBDA w1 :
    Try(IF w1.ret # 0 THEN Raise(git_reset_clean(w1), "Resolve") ELSE w1, LAMBDA w2 :
    Try(get_current_branch_name(w2, TRUE), LAMBDA w3 :
        complete_update(w3, w3.val))))

\* ret is bound only for the two known update methods
continue_update(w) ==
    Try(IF w.options.update_method = "merge" THEN git_commit(w)
        ELSE IF w.options.update_method = "rebase" THEN git_rebase_continue(w)
        ELSE Raise(w, "UnboundLocalError"), LAMBDA w1 :
    Try(Check(w1, "Resolve"), LAMBDA w2 :
    Try(get_current_branch_name(w2, TRUE), LAMBDA w3 :
        complete_update(w3, w3.val))))

-----------------------------------------------------------------------------
(* close, merge, fetch, submit *)

\* git diff-tree -r -c -M -C --no-commit-id <commit>: lines of space-separated fields
DiffTree(c) ==
    [i \in 1..(1 + (c % 2)) |->
        <<":100644", "100644", IntToStr(c), IntToStr(c \div 4), "M">>]

BlobField == 4

\* lines 297-328 of close_pull_request
diff_commit(original_head_commit, current_head_commit, current, original) ==
    IF original_head_commit = current_head_commit THEN FALSE
    ELSE IF Len(current) = Len(original)
    THEN \E i \in 1..Len(current) :
            /\ Len(current[i]) >= BlobField
            /\ Len(original[i]) >= BlobField
            /\ current[i][BlobField] # original[i][BlobField]
    ELSE TRUE

\* the commit a short name stands for, as git resolves it
CommitOfShort(short) ==
    IF \E c \in 0..MaxCommit : Short(Sha(c)) = short
    THEN CHOOSE c \in 0..MaxCommit : Short(Sha(c)) = short
    ELSE 0

\* .strip().split("\n") of what git printed, each line then .split(" "): no
\* output at all is one line of one empty field
split_lines(listing) == IF listing = <<>> THEN << <<"">> >> ELSE listing

\* the link is added whenever the listings are told apart
my_diff_comment_without_reset(original_head_commit, updated_head_commit, current_head_commit, current_diff_tree, original_diff_tree) ==
    diff_commit(original_head_commit, current_head_commit,
                split_lines(current_diff_tree), split_lines(original_diff_tree))

\* lines 293-342 of close_pull_request: is the "View just my changes" link added
my_diff_comment(original_head_commit, updated_head_commit, current_head_commit, current_diff_tree, original_diff_tree) ==
    /\ diff_commit(original_head_commit, current_head_commit,
                   split_lines(current_diff_tree), split_lines(original_diff_tree))
    /\ (IF updated_head_commit # <<>> THEN updated_head_commit
        ELSE original_head_commit) # current_head_commit

Comment(text, links) == [text |-> text, links |-> links]

\* lines 274-356 of close_pull_request: the links of a record that was read
close_links(w, branch_info) ==
    LET original_head_commit == IF "original" \in DOMAIN branch_info
                                THEN branch_info.original.head_commit ELSE <<>>
        updated_head_commit == IF "updated" \in DOMAIN branch_info
                               THEN branch_info.updated.head_commit ELSE <<>>
        current_head_commit == Short(Sha(HeadCommit(w)))
        changed == my_diff_comment(original_head_commit, updated_head_commit,
                                   current_head_commit, DiffTree(HeadCommit(w)),
                                   DiffTree(CommitOfShort(original_head_commit)))
        new_pr_url == w.val
    IN  (IF new_pr_url # None /\ new_pr_url # "" THEN <<"new_pr_url">> ELSE <<>>)
            \o (IF changed THEN <<"my_changes">> ELSE <<>>)
            \o <<"total_diff">>

\* lines 269-358 of close_pull_request: the try block
close_comment(w, pull_request_ID, comment) ==
    LET file == FileOf(w, pull_request_ID)
    IN  IF ReadException(file) # "none"
        THEN CloseExcept([Read(w, "close", pull_request_ID) EXCEPT
                             !.comment = Comment(comment, <<>>)],
                         ReadException(file))
        ELSE Bind(meta_get(Read(w, "close", pull_request_ID), "new_pr_url"), LAMBDA w1 :
                 [w1 EXCEPT !.comment = Comment(IF comment = None THEN "" ELSE comment,
                                                close_links(w1, file.data))])

post_comment(w, pull_request_ID, comment) ==
    Bind(github_json_request(w, [op |-> "comment", id |-> pull_request_ID]), LAMBDA w1 :
        IF Ok(w1) /\ w1.resp = "ok" /\ pull_request_ID \in DOMAIN w1.prs
        THEN [w1 EXCEPT !.posted = Append(@, comment)]
        ELSE w1)

close_pull_request(w, pull_request_ID, comment0) ==
    LET default_comment == w.options.close_default_comment
        comment == IF comment0 = None THEN default_comment ELSE comment0
    IN  Try(IF comment = None \/ comment = default_comment
            THEN close_comment(w, pull_request_ID, comment)
            ELSE [w EXCEPT !.comment = Comment(comment, <<>>)], LAMBDA w1 :
        Try(IF w1.comment.text # None /\ w1.comment # Comment("", <<>>)
            THEN post_comment(w1, pull_request_ID, w1.comment)
            ELSE w1, LAMBDA w2 :
        Bind(github_json_request(w2, [op |-> "close", id |-> pull_request_ID]), LAMBDA w3 :
            IF Ok(w3) /\ w3.resp = "ok" /\ pull_request_ID \in DOMAIN w3.prs
            THEN [w3 EXCEPT !.prs[pull_request_ID].state = "closed"]
            ELSE w3)))

\* a pull request that does not exist is answered 404 with a JSON body
get_pull_request_of(w, id) ==
    Bind(get_pull_request(w, id), LAMBDA w1 :
        IF Ok(w1) /\ w1.resp = "ok" /\ id \notin DOMAIN w1.prs
        THEN [w1 EXCEPT !.resp = "non2xx"] ELSE w1)

command_close(w, comment) ==
    Try(get_current_branch_name(w, TRUE), LAMBDA w1 :
    Try(display_pull_request(get_pull_request_of(w1, get_pull_request_ID(w1.val))),
        LAMBDA w2 :
    Try(close_pull_request(w2, get_pull_request_ID(w1.val), comment), LAMBDA w3 :
    Try(Check(git_checkout(w3, UpdateBranch(w3)), "Checkout"), LAMBDA w4 :
        Check(git_branch_D(w4, w1.val), "DeleteBranch")))))

\* the branch is deleted whatever git merge answered
command_merge_unchecked(w, comment) ==
    Try(get_current_branch_name(w, TRUE), LAMBDA w1 :
    Try(Check(git_checkout(w1, UpdateBranch(w1)), "Checkout"), LAMBDA w2 :
    Bind(git_merge_into_current(w2, w1.val), LAMBDA w3 :
    Try(Check(git_branch_D(w3, w1.val), "DeleteBranch"), LAMBDA w4 :
        IF w4.options.merge_auto_close
        THEN close_pull_request(w4, get_pull_request_ID(w1.val), comment)
        ELSE w4))))

command_merge(w, comment) ==
    Try(get_current_branch_name(w, TRUE), LAMBDA w1 :
    Try(Check(git_checkout(w1, UpdateBranch(w1)), "Checkout"), LAMBDA w2 :
    Try(Check(git_merge_into_current(w2, w1.val), "MergeFailed"), LAMBDA w3 :
    Try(Check(git_branch_D(w3, w1.val), "DeleteBranch"), LAMBDA w4 :
        IF w4.options.merge_auto_close
        THEN close_pull_request(w4, get_pull_request_ID(w1.val), comment)
        ELSE w4))))

NoPair == CommitPair(<<>>, <<>>)

\* the fetch is tried once
fetch_ref_once(w, id, branch_name) ==
    Bind(git_show_ref(w, branch_name), LAMBDA w1 :
    Bind(IF w1.ret # 0 THEN git_fetch(w1, id, branch_name) ELSE w1, LAMBDA w2 :
    Bind(IF w2.ret # 0 THEN git_show_ref(w2, branch_name) ELSE w2, LAMBDA w3 :
        IF w3.ret # 0 THEN Raise(w3, "FetchFailed") ELSE w3)))

\* lines 1153-1182 of fetch_pull_request: the ref that exists is not fetched again
fetch_ref(w, id, branch_name) ==
    Bind(git_show_ref(w, branch_name), LAMBDA w1 :
    Bind(IF w1.ret # 0 THEN git_fetch(w1, id, branch_name) ELSE w1, LAMBDA w2 :
    Bind(IF w2.ret # 0 THEN git_show_ref(w2, branch_name) ELSE w2, LAMBDA w3 :
    Bind(IF w3.ret # 0 THEN git_fetch(w3, id, branch_name) ELSE w3, LAMBDA w4 :
    Bind(IF w4.ret # 0 THEN git_show_ref(w4, branch_name) ELSE w4, LAMBDA w5 :
        IF w5.ret # 0 THEN Raise(w5, "FetchFailed") ELSE w5)))))

\* the record is removed before the fetch is tried
fetch_pull_request_removing_first(w, id) ==
    Try(fetch_ref([w EXCEPT !.records[id] = FileAbsent], id,
                  build_branch_name(PullRequest(w, id))), LAMBDA w1 :
        [w1 EXCEPT !.val = build_branch_name(PullRequest(w, id))])

fetch_pull_request(w, id) ==
    Try(fetch_ref(w, id, build_branch_name(PullRequest(w, id))), LAMBDA w1 :
        [w1 EXCEPT !.records[id] = FileAbsent,
                   !.val = build_branch_name(PullRequest(w, id))])

\* the commit names are stored whole
fetched_record_untruncated(pull_request) ==
    [username |-> pull_request.user.login,
     original |-> CommitPair(pull_request.base.sha, pull_request.head.sha)]

\* lines 468-478 of command_fetch
fetched_record(pull_request) ==
    [username |-> pull_request.user.login,
     original |-> CommitPair(Short(pull_request.base.sha), Short(pull_request.head.sha))]

command_fetch(w, id, auto_update) ==
    Try(display_pull_request(get_pull_request_of(w, id)), LAMBDA w1 :
    Try(fetch_pull_request(w1, id), LAMBDA w2 :
    Bind([w2 EXCEPT !.records[id] = JsonFile(fetched_record(PullRequest(w, id)))],
         LAMBDA w3 :
        IF auto_update THEN update_branch(w3, w2.val)
        ELSE IF w3.options.fetch_auto_checkout
        THEN Check(git_checkout(w3, w2.val), "Checkout")
        ELSE w3)))

\* the open pull requests, in the order of the list the API returns
RECURSIVE OpenPullRequests(_, _)
OpenPullRequests(w, ids) ==
    IF ids = {} THEN <<>>
    ELSE LET id == CHOOSE i \in ids : \A j \in ids : i <= j
         IN  IF w.prs[id].state = "open" /\ PullRequest(w, id).base.ref = UpdateBranch(w)
             THEN <<id>> \o OpenPullRequests(w, ids \ {id})
             ELSE OpenPullRequests(w, ids \ {id})

\* a non-2xx answer is a dict: indexing its keys raises
get_pull_requests(w) ==
    Try(github_json_request(w, [op |-> "list", id |-> NoID]), LAMBDA w1 :
        IF w1.resp = "non2xx" THEN Raise(w1, "TypeError")
        ELSE [w1 EXCEPT !.val = OpenPullRequests(w1, DOMAIN w1.prs)])

RECURSIVE fetch_each(_, _)
fetch_each(w, pull_requests) ==
    IF pull_requests = <<>> THEN w
    ELSE Try(fetch_pull_request(w, Head(pull_requests)), LAMBDA w1 :
             fetch_each(w1, Tail(pull_requests)))

command_fetch_all(w) ==
    Try(get_pull_requests(w), LAMBDA w1 : fetch_each(w1, w1.val))

\* lines 857-875 of command_submit: the create request raised msg
submit_recover(w, msg) ==
    Try(get_pull_requests(Raise(w, "none")), LAMBDA w1 :
        IF w1.x.found THEN [w1 EXCEPT !.result = "found"] ELSE Raise(w1, msg))

\* lines 777-893 of command_submit; x.found: the list holds the submitted pull request
command_submit(w) ==
    Bind(git_push(w, CurrentBranch(w)), LAMBDA w1 :
        IF w1.ret # 0 THEN Raise(w1, "PushFailed")
        ELSE
        Bind(github_json_request(w1, [op |-> "create", id |-> NoID]), LAMBDA w2 :
        Try(IF ~Ok(w2) THEN submit_recover(w2, w2.err)
            ELSE IF w2.resp = "ok" THEN [w2 EXCEPT !.result = "created"]
            ELSE w2, LAMBDA w3 :
            IF w3.result = "none" THEN Raise(w3, "KeyError")
            ELSE meta(w3, "new_pr_url", "url"))))

\* text.find(sub) != -1
Contains(text, sub) ==
    \E i \in 1..(Len(text) - Len(sub) + 1) : SubSeq(text, i, i + Len(sub) - 1) = sub

\* lines 516-526 of command_forward: the pull request is fetched and updated
\* unless the name of the current branch holds -<id>-
old_pull_request(w, pull_request_ID) ==
    IF ~Contains(CurrentBranch(w), <<"-">> \o IntToStr(pull_request_ID) \o <<"-">>)
    THEN command_fetch(w, pull_request_ID, TRUE)
    ELSE display_pull_request(get_pull_request_of(w, pull_request_ID))

\* the close follows whatever command_submit did
command_forward_closing_anyway(w, pull_request_ID) ==
    Try(old_pull_request(w, pull_request_ID), LAMBDA w1 :
    Bind(command_submit(w1), LAMBDA w2 :
        command_close(Raise(w2, "none"), "Forwarded")))

\* the update branch of the submit is the base of the pull request: master here
command_forward(w, pull_request_ID) ==
    Try(old_pull_request(w, pull_request_ID), LAMBDA w1 :
    Try(command_submit(w1), LAMBDA w2 :
        command_close(w2, "Forwarded")))

IsNumber(text) == Len(text) >= 1 /\ \A i \in 1..Len(text) : text[i] \in Digit

NoTarget == <<None>>

\* lines 904-911 of command_update: `except ValueError` also catches the
\* JSONDecodeError of a malformed answer
update_pull_request(w, target) ==
    Bind(get_pull_request_of(w, StrToInt(target)), LAMBDA w1 :
        IF w1.err = "JSONDecodeError"
        THEN Bind(Raise(w1, "none"), LAMBDA w2 : update_branch(w2, target))
        ELSE IF ~Ok(w1) THEN w1
        ELSE IF w1.resp = "non2xx" THEN Raise(w1, "KeyError")
        ELSE update_branch(w1, build_branch_name(PullRequest(w1, StrToInt(target)))))

command_update(w, target) ==
    IF target = NoTarget
    THEN Try(get_current_branch_name(w, TRUE), LAMBDA w1 : update_branch(w1, w1.val))
    ELSE IF IsNumber(target) THEN update_pull_request(w, target)
    ELSE update_branch(w, target)

\* lines 1861-1865 of main: without an argument the target is the update branch
main_update(w, args) ==
    IF args # <<>> THEN command_update(w, args[1]) ELSE command_update(w, UpdateBranch(w))

command_continue_update(w) == continue_update(w)

command_update_meta(w) == update_meta(w)

-----------------------------------------------------------------------------
(* The state machine: one action per command of main, and the steps of the   *)
(* user and of the pull request's author between two commands                *)

NoFault ==
    [gitFail |-> 0, gitAlso |-> FALSE, apiFail |-> 0, apiKind |-> "non2xx",
     kill |-> FALSE, found |-> FALSE, noBase |-> FALSE]

\* at most one thing goes wrong in a command: one call of git exits non-zero,
GitFaults == {[NoFault EXCEPT !.gitFail = k] : k \in 1..MaxGitCalls}

\* or git fetch fails and fails again when it is retried,
FetchTwice == [NoFault EXCEPT !.gitFail = 1, !.gitAlso = TRUE]

\* or one call of the API goes wrong,
ApiFaults(calls) ==
    {[NoFault EXCEPT !.apiFail = j, !.apiKind = kind] : j \in 1..calls, kind \in ApiFailures}

\* or the process dies in meta between truncate and dump,
Killed == [NoFault EXCEPT !.kill = TRUE]

\* or git merge-base finds no commit and exits non-zero,
NoBase == [NoFault EXCEPT !.noBase = TRUE]

\* or the create request raises although the pull request was created
Found ==
    {[NoFault EXCEPT !.apiFail = 1, !.apiKind = kind, !.found = TRUE] :
        kind \in ApiFailures \ {"non2xx"}}

World(x) ==
    [options |-> options, prs |-> prs, branches |-> branches, mbase |-> mbase,
     head |-> head, cwd |-> cwd, inProgress |-> inProgress, records |-> records,
     origDirFile |-> origDirFile, chdirFile |-> chdirFile, nextCommit |-> nextCommit,
     x |-> x,
     err |-> "none", git |-> <<>>, popen |-> <<>>, api |-> <<>>, posted |-> <<>>,
     reads |-> <<>>,
     completed |-> FALSE, comment |-> Comment(None, <<>>), result |-> "none",
     val |-> None, ret |-> 0, resp |-> "ok"]

\* the fault of the oracle happened in the run
Consumed(w) ==
    /\ w.x.gitFail = 0 \/ w.x.gitFail + (IF w.x.gitAlso THEN 1 ELSE 0) <= Len(w.git)
    /\ w.x.apiFail = 0 \/ w.x.apiFail <= Len(w.api)
    /\ w.x.kill => w.err = "Killed"
    /\ w.x.found => w.result = "found"
    /\ w.x.noBase => w.popen # <<>>

\* the files of the tool as a command finds them
Files(r, o, c) == [records |-> r, origDirFile |-> o, chdirFile |-> c]

NoOut ==
    [cmd |-> "none", id |-> NoID, target |-> <<>>, comment |-> None, auto |-> FALSE,
     branch |-> <<>>, dir |-> "orig",
     before |-> Files([id \in PullRequests |-> FileAbsent], "missing", "missing"),
     err |-> "none", git |-> <<>>, popen |-> <<>>, api |-> <<>>, posted |-> <<>>,
     reads |-> <<>>, completed |-> FALSE, result |-> "none"]

\* the command line of the command, and where it was given
Cmd(cmd, id, target, comment, auto) ==
    [NoOut EXCEPT !.cmd = cmd, !.id = id, !.target = target, !.comment = comment,
                  !.auto = auto, !.branch = head[cwd], !.dir = cwd,
                  !.before = Files(records, origDirFile, chdirFile)]

Done(w, c) ==
    /\ out = NoOut
    /\ Consumed(w)
    /\ prs' = w.prs
    /\ branches' = w.branches
    /\ mbase' = w.mbase
    /\ head' = w.head
    /\ cwd' = w.cwd
    /\ inProgress' = w.inProgress
    /\ records' = w.records
    /\ origDirFile' = w.origDirFile
    /\ chdirFile' = w.chdirFile
    /\ nextCommit' = w.nextCommit
    /\ out' = [c EXCEPT !.err = w.err, !.git = w.git, !.popen = w.popen, !.api = w.api,
                        !.posted = w.posted, !.reads = w.reads,
                        !.completed = w.completed, !.result = w.result]
    /\ UNCHANGED <<options, nm, run>>

Comments == {None, "LGTM"}

\* what `update` is given: a branch, or the number of a pull request
Targets == {b \in Branches \ {Str_master} : get_pull_request_ID(b) \in DOMAIN prs \cup {NoID}}
               \cup {IntToStr(id) : id \in DOMAIN prs}

Fetch ==
    \E id \in DOMAIN prs, auto \in BOOLEAN :
    \E x0 \in {NoFault, FetchTwice} \cup GitFaults \cup ApiFaults(1)
                 \cup (IF auto THEN {Killed} ELSE {}) :
        Done(command_fetch(World(x0), id, auto), Cmd("fetch", id, <<>>, None, auto))

FetchAll ==
    \E x0 \in {NoFault, FetchTwice} \cup GitFaults \cup ApiFaults(1) :
        Done(command_fetch_all(World(x0)), Cmd("fetch-all", NoID, <<>>, None, FALSE))

Update ==
    \E args \in {<<>>} \cup {<<t>> : t \in Targets} :
    \E x0 \in {NoFault, Killed} \cup GitFaults \cup ApiFaults(1) :
        Done(main_update(World(x0), args), Cmd("update", NoID, IF args = <<>> THEN NoTarget ELSE args[1], None, FALSE))

ContinueUpdate ==
    \E x0 \in {NoFault, Killed} \cup GitFaults :
        Done(command_continue_update(World(x0)), Cmd("continue-update", NoID, <<>>, None, FALSE))

UpdateMeta ==
    \E x0 \in {NoFault, Killed, NoBase} :
        Done(command_update_meta(World(x0)), Cmd("update-meta", NoID, <<>>, None, FALSE))

Submit ==
    \E x0 \in {NoFault, Killed} \cup GitFaults \cup ApiFaults(1) \cup Found :
        Done(command_submit(World(x0)), Cmd("submit", NoID, <<>>, None, FALSE))

Close ==
    \E comment \in Comments :
    \E x0 \in {NoFault} \cup GitFaults \cup ApiFaults(MaxApiCalls) :
        Done(command_close(World(x0), comment), Cmd("close", NoID, <<>>, comment, FALSE))

\* lines 1803-1810 of main: close <id> [<comment>]
CloseByID ==
    \E id \in DOMAIN prs, comment \in {"", "LGTM"} :
    \E x0 \in {NoFault} \cup ApiFaults(MaxApiCalls) :
        Done(close_pull_request(World(x0), id, comment), Cmd("close-id", id, <<>>, comment, FALSE))

Merge ==
    \E comment \in Comments :
    \E x0 \in {NoFault} \cup GitFaults \cup ApiFaults(MaxApiCalls) :
        Done(command_merge(World(x0), comment), Cmd("merge", NoID, <<>>, comment, FALSE))

MaxForwardGitCalls == 6

MaxForwardApiCalls == 5

\* in forward the create request is the second call of the API
FoundSecond ==
    {[NoFault EXCEPT !.apiFail = 2, !.apiKind = kind, !.found = TRUE] :
        kind \in ApiFailures \ {"non2xx"}}

\* lines 1821-1822 of main: forward <id>
Forward ==
    \E id \in DOMAIN prs :
    \E x0 \in {NoFault, Killed} \cup {[NoFault EXCEPT !.gitFail = k] : k \in 1..MaxForwardGitCalls}
                 \cup ApiFaults(MaxForwardApiCalls) \cup FoundSecond :
        Done(command_forward(World(x0), id), Cmd("forward", id, <<>>, "Forwarded", FALSE))

\* the author pushes a commit to the head of an open pull request
RemotePush ==
    \E id \in DOMAIN prs :
        /\ out = NoOut
        /\ prs[id].state = "open"
        /\ nextCommit <= MaxCommit
        /\ prs' = [prs EXCEPT ![id].head = nextCommit]
        /\ nextCommit' = nextCommit + 1
        /\ out' = NoOut
        /\ UNCHANGED <<options, branches, mbase, head, cwd, inProgress, records,
                       origDirFile, chdirFile, nm, run>>

\* the user checks a branch out by hand
UserCheckout ==
    \E b \in Branches :
        /\ out = NoOut
        /\ branches[b] # 0
        /\ inProgress[cwd] = "none"
        /\ head[cwd] # b
        /\ head' = [head EXCEPT ![cwd] = b]
        /\ out' = NoOut
        /\ UNCHANGED <<options, prs, branches, mbase, cwd, inProgress, records,
                       origDirFile, chdirFile, nextCommit, nm, run>>

\* the user changes between the checkout and the work directory
UserChdir ==
    /\ out = NoOut
    /\ options.work_dir
    /\ cwd' = IF cwd = "orig" THEN "work" ELSE "orig"
    /\ out' = NoOut
    /\ UNCHANGED <<options, prs, branches, mbase, head, inProgress, records,
                   origDirFile, chdirFile, nextCommit, nm, run>>

\* lines 2052-2057: the process of the command ends, and with it its working
\* directory; the shell is where the command was given
Exit ==
    /\ out # NoOut
    /\ out' = NoOut
    /\ cwd' = out.dir
    /\ UNCHANGED <<options, prs, branches, mbase, head, inProgress, records,
                   origDirFile, chdirFile, nextCommit, nm, run>>

\* lines 150-217: the options this model reads
Options(update_methods, work_dirs) ==
    [update_method : update_methods, work_dir : work_dirs,
     merge_auto_close : {TRUE}, fetch_auto_checkout : {FALSE},
     update_branch : {Str_master}, close_default_comment : {None}]

\* a repository that holds the update branch and the hand-made branch, a remote
\* with one open pull request, and no file of the tool yet
\* one process at a time
NoRun == [start |-> None, proc |-> <<>>]

Fresh ==
    /\ prs = [id \in {42} |-> [head |-> 3, base |-> 1, state |-> "open"]]
    /\ branches = [b \in Branches |->
                      IF b = Str_master THEN 2 ELSE IF b = Str_pull_request_x THEN 1 ELSE 0]
    /\ mbase = [b \in Branches |-> IF b = Str_master THEN 2 ELSE 1]
    /\ head = [d \in Dirs |-> Str_master]
    /\ cwd = "orig"
    /\ inProgress = [d \in Dirs |-> "none"]
    /\ records = [id \in PullRequests |-> FileAbsent]
    /\ origDirFile = "missing"
    /\ chdirFile = "missing"
    /\ nextCommit = 4
    /\ out = NoOut
    /\ run = NoRun

NoName == [pull_request |-> [number |-> 0, title |-> <<>>, head |-> [ref |-> <<>>]],
           applied |-> FALSE, branch_name |-> <<>>, pull_request_ID |-> NoID]

\* every command, with the options as they are shipped
Init ==
    /\ options \in Options({"merge"}, {FALSE})
    /\ Fresh
    /\ nm = NoName

Next ==
    \/ Fetch
    \/ FetchAll
    \/ Update
    \/ ContinueUpdate
    \/ UpdateMeta
    \/ Submit
    \/ Close
    \/ CloseByID
    \/ Merge
    \/ RemotePush
    \/ UserCheckout
    \/ Exit

Spec == Init /\ [][Next]_vars

\* the update commands, under every update method, with and without a work directory
InitUpdate ==
    /\ options \in Options(UpdateMethods, BOOLEAN)
    /\ Fresh
    /\ nm = NoName

NextUpdate ==
    \/ Fetch
    \/ FetchAll
    \/ Update
    \/ ContinueUpdate
    \/ UpdateMeta
    \/ UserCheckout
    \/ UserChdir
    \/ Exit

SpecUpdate == InitUpdate /\ [][NextUpdate]_vars

\* merge, with merge-auto-close set and unset
InitMerge ==
    /\ options \in {[o EXCEPT !.merge_auto_close = b] :
                       o \in Options({"merge"}, {FALSE}), b \in BOOLEAN}
    /\ Fresh
    /\ nm = NoName

NextMerge ==
    \/ Fetch
    \/ Merge
    \/ RemotePush
    \/ UserCheckout
    \/ Exit

SpecMerge == InitMerge /\ [][NextMerge]_vars

\* two processes in one checkout, each updating its own pull request: a step
\* of a process is what it does up to and with its next call of git or the API
Procs == {1, 2}

IdOf(p) == IF p = 1 THEN 42 ELSE 7

Proc(id) == [id |-> id, at |-> "start", branch_name |-> <<>>, err |-> "none"]

\* both pull requests were fetched, and the update branch has not moved since
InitConcurrent ==
    /\ options \in Options({"merge", "rebase"}, {FALSE})
    /\ prs = [id \in PullRequests |->
                 [head |-> IF id = 42 THEN 2 ELSE 3, base |-> 1, state |-> "open"]]
    /\ branches = [b \in Branches |->
                      IF b = Str_master THEN 1
                      ELSE IF b = Str_pull_request_x THEN 0
                      ELSE prs[get_pull_request_ID(b)].head]
    /\ mbase = [b \in Branches |-> 1]
    /\ head \in {[d \in Dirs |-> b] : b \in Branches \ {Str_pull_request_x}}
    /\ cwd = "orig"
    /\ inProgress = [d \in Dirs |-> "none"]
    /\ records = [id \in PullRequests |->
                     JsonFile(fetched_record(PullRequest([prs |-> prs], id)))]
    /\ origDirFile = "missing"
    /\ chdirFile = "missing"
    /\ nextCommit = 4
    /\ out = NoOut
    /\ nm = NoName
    /\ run = [start |-> World(NoFault), proc |-> [p \in Procs |-> Proc(IdOf(p))]]

\* the step left the world w, and the process is at `at` unless it raised
Stepped(w, p, at, branch_name) ==
    /\ prs' = w.prs
    /\ branches' = w.branches
    /\ mbase' = w.mbase
    /\ head' = w.head
    /\ inProgress' = w.inProgress
    /\ records' = w.records
    /\ origDirFile' = w.origDirFile
    /\ chdirFile' = w.chdirFile
    /\ nextCommit' = w.nextCommit
    /\ run' = [run EXCEPT !.proc[p].at = IF Ok(w) THEN at ELSE "raised",
                          !.proc[p].err = w.err,
                          !.proc[p].branch_name = branch_name]
    /\ UNCHANGED <<options, cwd, out, nm>>

\* lines 899-904 of command_update: `update <id>` asks the API for the pull request
ResolveTarget(p) ==
    /\ run.proc[p].at = "start"
    /\ Stepped(display_pull_request(get_pull_request_of(World(NoFault), run.proc[p].id)),
               p, "resolved", build_branch_name(PullRequest(World(NoFault), run.proc[p].id)))

\* line 2001 of update_branch
CheckoutBranch(p) ==
    /\ run.proc[p].at = "resolved"
    /\ Stepped(Check(git_checkout(World(NoFault), run.proc[p].branch_name), "Checkout"),
               p, "checked-out", run.proc[p].branch_name)

\* lines 2015-2023 of update_branch
RunUpdateMethod(p) ==
    /\ run.proc[p].at = "checked-out"
    /\ Stepped(Bind(git_update_method(World(NoFault)), LAMBDA w1 :
                   IF w1.ret # 0 THEN update_failed(w1) ELSE w1),
               p, "updated", run.proc[p].branch_name)

\* line 2025 of update_branch
CompleteUpdate(p) ==
    /\ run.proc[p].at = "updated"
    /\ Stepped(complete_update(World(NoFault), run.proc[p].branch_name),
               p, "done", run.proc[p].branch_name)

NextConcurrent ==
    \E p \in Procs :
        \/ ResolveTarget(p)
        \/ CheckoutBranch(p)
        \/ RunUpdateMethod(p)
        \/ CompleteUpdate(p)

SpecConcurrent == InitConcurrent /\ [][NextConcurrent]_vars

\* forward, after a fetch or from anywhere
NextForward ==
    \/ Fetch
    \/ Forward
    \/ RemotePush
    \/ UserCheckout
    \/ Exit

SpecForward == Init /\ [][NextForward]_vars

\* the naming functions, applied to one pull request
RefChars == {"A", "-", "1", ArabicIndicThree}

Refs == UNION {[1..n -> RefChars] : n \in 0..MaxRefLen}

Titles == {<<>>, Str_fix, Str_JIRA_99_fix}

InitNaming ==
    /\ options \in Options({"merge"}, {FALSE})
    /\ Fresh
    /\ nm \in {[NoName EXCEPT !.pull_request =
                   [number |-> n, title |-> title, head |-> [ref |-> ref]]] :
               n \in 1..MaxNumber, title \in Titles, ref \in Refs}

\* lines 1149 and 1392-1402: the branch is named, and the name is read again
Naming ==
    /\ ~nm.applied
    /\ nm' = [nm EXCEPT !.applied = TRUE,
                        !.branch_name = build_branch_name(nm.pull_request),
                        !.pull_request_ID =
                            get_pull_request_ID(build_branch_name(nm.pull_request))]
    /\ UNCHANGED <<options, prs, branches, mbase, head, cwd, inProgress, records,
                   origDirFile, chdirFile, nextCommit, out, run>>

NextNaming == Naming

SpecNaming == InitNaming /\ [][NextNaming]_vars

\* the classification of two diff-tree listings, applied to one pair of listings
MaxLines == 3

\* lines as git diff-tree prints them: modes, old blob, new blob, status
DiffLines == {<<":100644", "100644", "0", "a", "M">>,
              <<":100644", "100644", "0", "b", "M">>,
              <<":100644", "100644", "1", "a", "M">>}

Listings == UNION {[1..n -> DiffLines] : n \in 0..MaxLines}

Heads == {Short(Sha(1)), Short(Sha(2))}

\* one commit has one listing
InitDiff ==
    /\ options \in Options({"merge"}, {FALSE})
    /\ Fresh
    /\ nm \in {r \in [applied : {FALSE}, diff_commit : {FALSE}, my_diff_comment : {FALSE},
                       original_head_commit : Heads,
                       updated_head_commit : {<<>>} \cup Heads \cup {Short(Sha(3))},
                       current_head_commit : {Short(Sha(1))},
                       current_diff_tree : Listings,
                       original_diff_tree : Listings,
                       updated_diff_tree : Listings] :
                  /\ r.original_head_commit = r.current_head_commit
                         => r.original_diff_tree = r.current_diff_tree
                  /\ r.updated_head_commit = r.current_head_commit
                         => r.updated_diff_tree = r.current_diff_tree
                  /\ r.updated_head_commit = r.original_head_commit
                         => r.updated_diff_tree = r.original_diff_tree
                  /\ r.updated_head_commit = <<>> => r.updated_diff_tree = <<>>}

\* lines 291-342 of close_pull_request
Diff ==
    /\ ~nm.applied
    /\ nm' = [nm EXCEPT
                 !.applied = TRUE,
                 !.diff_commit =
                     diff_commit(nm.original_head_commit, nm.current_head_commit,
                                 split_lines(nm.current_diff_tree),
                                 split_lines(nm.original_diff_tree)),
                 !.my_diff_comment =
                     my_diff_comment(nm.original_head_commit, nm.updated_head_commit,
                                     nm.current_head_commit, nm.current_diff_tree,
                                     nm.original_diff_tree)]
    /\ UNCHANGED <<options, prs, branches, mbase, head, cwd, inProgress, records,
                   origDirFile, chdirFile, nextCommit, out, run>>

NextDiff == Diff

SpecDiff == InitDiff /\ [][NextDiff]_vars

-----------------------------------------------------------------------------
(* Properties.  A state with out.cmd # "none" is the state a command leaves, *)
(* with what the command did in out and the files it found in out.before.    *)

OriginalOf(file) ==
    IF file.st = "json" /\ "original" \in DOMAIN file.data THEN file.data.original
    ELSE NoPair

UpdatedOf(file) ==
    IF file.st = "json" /\ "updated" \in DOMAIN file.data THEN file.data.updated
    ELSE NoPair

\* the pull request of the branch that is checked out when the command ends
UpdatedID == get_pull_request_ID(head[cwd])

\* the pull request `close` and `close <id>` are about
ClosedID == IF out.cmd = "close-id" THEN out.id ELSE get_pull_request_ID(out.branch)

\* merge-base and HEAD of the branch that is checked out, in the short form
CurrentPair == CommitPair(Short(Sha(mbase[head[cwd]])), Short(Sha(branches[head[cwd]])))

\* the pair of the pull request as the API gives it, in the short form
ApiPair(id) == CommitPair(Short(Sha(prs[id].base)), Short(Sha(prs[id].head)))

Failed(o, cmd) == \E i \in 1..Len(o.git) : o.git[i] = [cmd |-> cmd, ret |-> 1]

GitOk(o) == \A i \in 1..Len(o.git) : o.git[i].ret = 0

ApiOk(o) == \A i \in 1..Len(o.api) : o.api[i].outcome = "ok"

\* C1: for every number n >= 1, head ref and title, with or without a ticket,
\* the number read from the branch name built for the pull request is n, and the
\* name starts with the prefix and the digits of n.
C1_IdRecovered ==
    nm.applied =>
        /\ nm.pull_request_ID = nm.pull_request.number
        /\ StartsWith(nm.branch_name,
                      PullRequestPrefix \o IntToStr(nm.pull_request.number))

C1_Witness ==
    /\ nm.applied
    /\ nm.pull_request.number = MaxNumber
    /\ get_jira_ticket(nm.pull_request.head.ref) # <<>>
    /\ Len(nm.branch_name) > Len(PullRequestPrefix \o IntToStr(nm.pull_request.number))

\* C2, as the specification states it: once a record holds `original`, no command
\* changes it as long as the record is there.
C2_AsClaimed ==
    \A id \in DOMAIN records :
        (/\ out.cmd # "none"
         /\ OriginalOf(out.before.records[id]) # NoPair
         /\ records[id].st = "json")
            => OriginalOf(records[id]) = OriginalOf(out.before.records[id])

\* C2, corrected: only `fetch <id>` gives the record of id a new `original`; every
\* fetch that succeeds sets it to the pair the API gives at that moment, also when
\* the record held one; fetch-all leaves no record for the pull requests it fetched.
C2_OriginalIsOfTheLastFetch ==
    \A id \in DOMAIN records :
        out.cmd # "none" =>
            /\ (/\ records[id].st = "json"
                /\ OriginalOf(records[id]) # OriginalOf(out.before.records[id]))
                   => out.cmd = "fetch" /\ out.id = id
            /\ (out.cmd = "fetch" /\ out.id = id /\ out.err = "none")
                   => OriginalOf(records[id]) = ApiPair(id)
            /\ (/\ out.cmd = "fetch-all" /\ out.err = "none"
                /\ id \in DOMAIN prs /\ prs[id].state = "open")
                   => records[id] = FileAbsent

C2_Witness ==
    /\ out.cmd = "fetch"
    /\ out.err = "none"
    /\ OriginalOf(out.before.records[out.id]) # NoPair
    /\ OriginalOf(records[out.id]) # OriginalOf(out.before.records[out.id])

\* C3, as the specification states it: every update that completes leaves the
\* record of the updated pull request with `updated` = (merge-base, HEAD), short
\* (a record no process died on while writing it).
C3_AsClaimed ==
    (out.completed /\ UpdatedID \in DOMAIN prs /\ records[UpdatedID].st # "empty")
        => UpdatedOf(records[UpdatedID]) = CurrentPair

\* C3, corrected: an update or continue-update that completes leaves `updated` =
\* (merge-base, HEAD), each cut to 10 characters, when the record of the pull
\* request was there and readable; when it was not, the command completes all
\* the same and leaves the files as they were.
C3_UpdatedWhenReadable ==
    (out.completed /\ UpdatedID \in DOMAIN prs) =>
        IF out.cmd = "fetch" \/ out.before.records[UpdatedID].st = "json"
        THEN /\ records[UpdatedID].st = "json"
             /\ UpdatedOf(records[UpdatedID]) = CurrentPair
             /\ Len(CurrentPair.parent_commit) = ShortLen
             /\ Len(CurrentPair.head_commit) = ShortLen
        ELSE records = out.before.records

C3_Witness ==
    /\ out.cmd = "continue-update"
    /\ out.completed
    /\ UpdatedID \in DOMAIN prs
    /\ UpdatedOf(records[UpdatedID]) = CurrentPair
    /\ UpdatedOf(out.before.records[UpdatedID]) # CurrentPair

\* C4, as the specification states it: close and merge on a branch whose name has
\* no pull-request number are rejected before any call of git or of the API.
C4_AsClaimed ==
    (out.cmd \in {"close", "merge"} /\ get_pull_request_ID(out.branch) = NoID)
        => out.err = "InvalidBranch" /\ out.git = <<>> /\ out.api = <<>>

\* C5: when the merge or rebase of an update exits non-zero, the update ends with
\* the resolve-and-continue error, nothing runs after the merge or rebase
\* (complete_update is not run, no directory is restored), and `updated` is what
\* it was before the update.
C5_MergeFailureAborts ==
    (out.cmd \in {"update", "fetch"} /\ Failed(out, "update-method")) =>
        /\ out.err = "Resolve"
        /\ ~out.completed
        /\ out.git[Len(out.git)].cmd = "update-method"
        /\ chdirFile = out.before.chdirFile
        /\ (out.cmd = "update" => records = out.before.records)
        /\ (out.cmd = "fetch" => UpdatedOf(records[out.id]) = NoPair)

C5_Witness ==
    /\ out.cmd = "update"
    /\ Failed(out, "update-method")
    /\ out.err = "Resolve"
    /\ UpdatedID \in DOMAIN prs
    /\ UpdatedOf(records[UpdatedID]) # NoPair

\* C6, as the specification states it: continue-update on a pull-request branch
\* runs the one completion command of the update method and, for every value of
\* update-method, ends in completion or in the resolve-and-continue error.
C6_AsClaimed ==
    (/\ out.cmd = "continue-update"
     /\ get_pull_request_ID(out.branch) \in DOMAIN prs
     /\ ~options.work_dir
     /\ out.err # "Killed")
        => /\ out.completed \/ out.err = "Resolve"
           /\ Len(out.git) = 1

\* C7: an update started in the work directory ends with the error of
\* update_branch's first test: no call of git, no change of directory, and the
\* records and the files original_dir_path and git-pull-request-chdir untouched.
C7_NoUpdateFromWorkDir ==
    (out.cmd = "update" /\ options.work_dir /\ out.dir = "work" /\ ApiOk(out)) =>
        /\ out.err = "WorkDir"
        /\ out.git = <<>>
        /\ out.reads = <<>>
        /\ cwd = "work"
        /\ Files(records, origDirFile, chdirFile) = out.before
        /\ ~out.completed

C7_Witness ==
    /\ out.cmd = "update"
    /\ options.work_dir
    /\ out.dir = "work"
    /\ out.err = "WorkDir"
    /\ get_pull_request_ID(out.target) \in DOMAIN prs

\* the state with the record of id replaced
WithRecord(id, file) == [World(NoFault) EXCEPT !.records[id] = file]

\* what a caller can tell of a run: everything but the file itself
Told(w) == [w EXCEPT !.records = <<>>, !.reads = <<>>]

\* C8: no exception of a metadata read reaches the command: a record that is
\* missing or empty makes meta return None and close_pull_request go on, and the
\* callers of both cannot tell an empty record from a missing one.
C8_ReadNeverThrows ==
    /\ (Len(out.reads) > 0 /\ ApiOk(out))
           => out.err \notin {"FileNotFoundError", "JSONDecodeError"}
    /\ (out.cmd = "none" /\ UpdatedID \in DOMAIN records) =>
           /\ \A file \in {FileAbsent, FileEmpty} :
                  /\ Ok(meta_get(WithRecord(UpdatedID, file), "new_pr_url"))
                  /\ meta_get(WithRecord(UpdatedID, file), "new_pr_url").val = None
                  /\ Ok(meta(WithRecord(UpdatedID, file), "new_pr_url", "url"))
                  /\ meta(WithRecord(UpdatedID, file), "new_pr_url", "url").val = None
           /\ Told(meta(WithRecord(UpdatedID, FileAbsent), "new_pr_url", "url"))
                  = Told(meta(WithRecord(UpdatedID, FileEmpty), "new_pr_url", "url"))
           /\ Told(update_meta(WithRecord(UpdatedID, FileAbsent)))
                  = Told(update_meta(WithRecord(UpdatedID, FileEmpty)))
    /\ out.cmd = "none" =>
           \A id \in DOMAIN records :
               /\ Ok(close_pull_request(WithRecord(id, FileAbsent), id, None))
               /\ Told(close_pull_request(WithRecord(id, FileAbsent), id, None))
                      = Told(close_pull_request(WithRecord(id, FileEmpty), id, None))

C8_Witness ==
    /\ out.cmd = "update-meta"
    /\ out.err = "none"
    /\ Len(out.reads) = 1
    /\ out.reads[1].saw = "empty"
    /\ out.reads[1].exc = "JSONDecodeError"

\* C9: close of a pull request whose record is missing or unreadable, when the API
\* answers: the pull request is closed, a comment the caller gave is posted as it
\* is, without a link, no comment is posted when the caller gave none, and the
\* command fails only where a call of git fails.
C9_CloseDegrades ==
    (/\ out.cmd \in {"close", "close-id"}
     /\ ClosedID \in DOMAIN prs
     /\ out.before.records[ClosedID].st # "json"
     /\ ApiOk(out)) =>
        /\ prs[ClosedID].state = "closed"
        /\ out.posted = IF out.comment \in {None, ""} THEN <<>>
                        ELSE <<Comment(out.comment, <<>>)>>
        /\ out.err \in {"none", "Checkout", "DeleteBranch"}
        /\ GitOk(out) => out.err = "none"

C9_Witness ==
    /\ out.cmd = "close"
    /\ out.comment = None
    /\ ClosedID \in DOMAIN prs
    /\ Len(out.reads) > 0
    /\ out.reads[1] = [by |-> "close", id |-> ClosedID, saw |-> "absent",
                       exc |-> "FileNotFoundError"]
    /\ out.err = "none"
    /\ prs[ClosedID].state = "closed"

\* C10: the record a fetch writes holds the base and head the API gave, each cut
\* to 10 characters, and the user; an update or continue-update that completes
\* on a readable record sets `updated` to the new pair and leaves every other
\* field of the record, and every other record, as it was.
C10_RoundTripAndFrame ==
    /\ (out.cmd = "fetch" /\ out.err = "none" /\ ~out.auto) =>
           /\ records[out.id] =
                  JsonFile([username |-> PullRequest(World(NoFault), out.id).user.login,
                            original |-> ApiPair(out.id)])
           /\ Len(ApiPair(out.id).parent_commit) = ShortLen
           /\ Len(ApiPair(out.id).head_commit) = ShortLen
    /\ (/\ out.cmd \in {"update", "continue-update"}
        /\ out.completed
        /\ UpdatedID \in DOMAIN prs
        /\ out.before.records[UpdatedID].st = "json") =>
           records = [out.before.records EXCEPT
                         ![UpdatedID] = JsonFile(Put(@.data, "updated", CurrentPair))]

C10_Witness ==
    /\ out.cmd = "update"
    /\ out.completed
    /\ UpdatedID \in DOMAIN prs
    /\ OriginalOf(out.before.records[UpdatedID]) # NoPair
    /\ OriginalOf(records[UpdatedID]) = OriginalOf(out.before.records[UpdatedID])
    /\ UpdatedOf(records[UpdatedID]) # UpdatedOf(out.before.records[UpdatedID])

\* C11: the comment of close carries the "View just my changes" link only if the
\* diff-tree listing of HEAD differs from the listing of original.head_commit;
\* with identical listings, or with HEAD equal to the recorded head (the updated
\* one, or the original one), the link is not added.
C11_LinkOnlyIfChanged ==
    nm.applied =>
        /\ nm.my_diff_comment => nm.current_diff_tree # nm.original_diff_tree
        /\ nm.current_diff_tree = nm.original_diff_tree => ~nm.my_diff_comment
        /\ nm.current_head_commit = nm.original_head_commit => ~nm.my_diff_comment
        /\ nm.current_head_commit = nm.updated_head_commit => ~nm.my_diff_comment

C11_Witness ==
    /\ nm.applied
    /\ nm.my_diff_comment
    /\ nm.updated_head_commit # <<>>
    /\ Len(nm.current_diff_tree) = Len(nm.original_diff_tree)

\* the classification of two listings by their lines and blob fields
Changed(current, original) ==
    \/ Len(current) # Len(original)
    \/ \E i \in 1..Len(current) : current[i][BlobField] # original[i][BlobField]

\* C12, as the specification states it: listings of different length are changed,
\* listings of equal length are changed exactly when the blob field differs at
\* some position, identical listings are unchanged.
C12_AsClaimed ==
    nm.applied =>
        nm.diff_commit = (/\ nm.original_head_commit # nm.current_head_commit
                          /\ Changed(nm.current_diff_tree, nm.original_diff_tree))

\* the branch `update` is asked to update
AskedBranch ==
    IF out.target = NoTarget THEN out.branch
    ELSE IF IsNumber(out.target) THEN BranchOf(StrToInt(out.target))
    ELSE out.target

\* C13, as the documentation states it: `update` without an argument updates
\* the pull-request branch that is checked out, and with an argument the pull
\* request or branch named by it: when git and the API do not fail, the update
\* completes on that branch.
C13_AsClaimed ==
    (/\ out.cmd = "update"
     /\ get_pull_request_ID(out.branch) \in DOMAIN prs
     /\ ~options.work_dir
     /\ GitOk(out) /\ ApiOk(out) /\ out.err # "Killed") =>
        /\ out.completed
        /\ head[cwd] = AskedBranch

\* the errors github_json_request raises
RequestErrors == {"AttributeError", "InvalidResponse", "JSONDecodeError"}

\* C14, as the specification states it: whenever the create request of submit
\* fails, the list of pull requests is asked for, and submit ends either with the
\* pull request found there, as a success, or with the error of the request.
C14_AsClaimed ==
    (/\ out.cmd = "submit"
     /\ Len(out.api) >= 1
     /\ out.api[1].outcome # "ok"
     /\ out.err # "Killed") =>
        /\ Len(out.api) = 2
        /\ out.api[2].call.op = "list"
        /\ \/ out.result = "found" /\ out.err = "none"
           \/ out.result = "none" /\ out.err \in RequestErrors

\* C15, as the specification states it: outside submit, a non-2xx answer, an
\* empty body or a malformed body ends the command with an error, at the call
\* that got it.
C15_AsClaimed ==
    \A i \in 1..Len(out.api) :
        (out.cmd # "submit" /\ out.api[i].outcome \in {"non2xx", "empty", "malformed"}) =>
            /\ out.err # "none"
            /\ Len(out.api) = i
            /\ out.git = out.git

\* the call i of git is the first fetch of a branch, not the second
FirstFetch(i) ==
    /\ out.git[i].cmd = "fetch"
    /\ i = 1 \/ out.git[i - 1] # [cmd |-> "fetch", ret |-> 1]

C17_AsClaimed ==
    (out.cmd # "none" /\ out.err \notin {"none", "Killed"}) => out.err \in UserWarnings

\* the name the specification gives: the ticket is a match of [A-Z]{3,}-[0-9]+
ClaimedBranchName(pull_request) ==
    LET ref == Search(pull_request.head.ref, Digit)
        ticket == IF ref # <<>> THEN ref ELSE Search(pull_request.title, Digit)
    IN  PullRequestPrefix \o IntToStr(pull_request.number)
            \o (IF ticket # <<>> THEN <<"-">> \o ticket ELSE <<>>)

\* C18, as the specification states it: the branch name is pull-request-<id>,
\* followed by -<ticket> for the first match of [A-Z]{3,}-[0-9]+ in the head ref,
\* or in the title when the head ref has none, and by nothing when neither has.
C18_AsClaimed ==
    nm.applied => nm.branch_name = ClaimedBranchName(nm.pull_request)

\* a call of git <cmd> in the log of the command, with exit code 0 or not
GitCall(log, cmd, ok) == \E i \in 1..Len(log) : log[i].cmd = cmd /\ (log[i].ret = 0) = ok

\* C20: in a run of merge the branch is deleted only when git merge succeeded
\* before git branch -D; a pull request is closed only when the branch was
\* deleted and merge-auto-close is set (otherwise the API is not called at
\* all); and when the checkout or the merge fails the branch is still there
\* and every pull request is as it was.
C20_MergeOrder ==
    [][out'.cmd = "merge" =>
          /\ branches'[out'.branch] = 0 =>
                 \E i, j \in 1..Len(out'.git) :
                     /\ i < j
                     /\ out'.git[i].cmd = "merge" /\ out'.git[i].ret = 0
                     /\ out'.git[j].cmd = "branch-D" /\ out'.git[j].ret = 0
          /\ prs' # prs => branches'[out'.branch] = 0 /\ options.merge_auto_close
          /\ out'.api # <<>> => branches'[out'.branch] = 0 /\ options.merge_auto_close
          /\ (GitCall(out'.git, "checkout", FALSE) \/ GitCall(out'.git, "merge", FALSE)) =>
                 /\ branches' = branches
                 /\ branches[out'.branch] # 0
                 /\ prs' = prs]_vars

\* merge ran to its end with merge-auto-close set: merged, deleted, closed
C20_Witness ==
    /\ out.cmd = "merge" /\ out.err = "none"
    /\ options.merge_auto_close
    /\ GitCall(out.git, "merge", TRUE)
    /\ branches[out.branch] = 0
    /\ get_pull_request_ID(out.branch) \in DOMAIN prs
    /\ prs[get_pull_request_ID(out.branch)].state = "closed"

\* merge ran to its end with merge-auto-close unset: merged, deleted, still open
C20_WitnessNoClose ==
    /\ out.cmd = "merge" /\ out.err = "none"
    /\ ~options.merge_auto_close
    /\ branches[out.branch] = 0
    /\ get_pull_request_ID(out.branch) \in DOMAIN prs
    /\ prs[get_pull_request_ID(out.branch)].state = "open"

\* the records after the two updates ran one after the other, p first
SerialRecords(p, q) ==
    main_update(main_update(run.start, <<IntToStr(IdOf(p))>>), <<IntToStr(IdOf(q))>>).records

\* C19, as the specification states it: two processes that update different
\* pull requests do not conflict.  No step of a process changes the record of
\* the other pull request, and when both processes have ended the records are
\* those of one of the two serial executions.
C19_AsClaimed ==
    /\ [][\A p \in Procs :
             run'.proc[p] # run.proc[p] =>
                 \A id \in PullRequests \ {run.proc[p].id} : records'[id] = records[id]]_vars
    /\ []((\A p \in Procs : run.proc[p].at \in {"done", "raised"}) =>
             records \in {SerialRecords(1, 2), SerialRecords(2, 1)})

\* C21: a continue-update whose completion command (git commit, or git rebase
\* --continue) exits non-zero ends with the resolve-and-continue error after
\* that one call of git: no directory is changed, nothing is reset or checked
\* out, no file of the tool is written, and the repository is in the state the
\* command found, so that continue-update can be given again.
C21_FailedContinueStays ==
    [][(/\ out'.cmd = "continue-update"
        /\ (Failed(out', "commit") \/ Failed(out', "rebase-continue"))) =>
           /\ out'.err = "Resolve"
           /\ ~out'.completed
           /\ Len(out'.git) = 1
           /\ out'.reads = <<>>
           /\ UNCHANGED <<prs, branches, mbase, head, cwd, inProgress, records,
                          origDirFile, chdirFile, nextCommit>>]_vars

\* the completion command of a conflicted update failed
C21_Witness ==
    /\ out.cmd = "continue-update"
    /\ Failed(out, "commit") \/ Failed(out, "rebase-continue")
    /\ out.err = "Resolve"
    /\ inProgress[cwd] # "none"
    /\ get_pull_request_ID(out.branch) \in DOMAIN prs

\* the head commit the record holds last, and the listing of that commit
LastRecordedHead ==
    IF nm.updated_head_commit # <<>> THEN nm.updated_head_commit
    ELSE nm.original_head_commit

LastRecordedDiffTree ==
    IF nm.updated_head_commit # <<>> THEN nm.updated_diff_tree ELSE nm.original_diff_tree

\* C22, as the specification states it: the classification at close compares the
\* diff-tree listing of HEAD with the listing of the last recorded head commit,
\* updated.head_commit when the record has an updated pair and
\* original.head_commit otherwise.
C22_AsClaimed ==
    nm.applied =>
        nm.my_diff_comment =
            diff_commit(LastRecordedHead, nm.current_head_commit,
                        split_lines(nm.current_diff_tree),
                        split_lines(LastRecordedDiffTree))

\* C23, as the specification states it: after every `fetch <id>` that succeeds,
\* also when the local branch was there already, original.head_commit is the
\* head commit of the local pull-request branch, cut to 10 characters.
C23_AsClaimed ==
    (out.cmd = "fetch" /\ out.err = "none" /\ ~out.auto) =>
        OriginalOf(records[out.id]).head_commit = Short(Sha(branches[BranchOf(out.id)]))

\* C24, as the specification states it: when the merge or rebase of an update is
\* completed in the work directory, complete_update checks the update branch out
\* there, goes back to the original location and leaves it on the updated branch
\* (by a reset when it is on that branch, by a checkout otherwise), and the file
\* git-pull-request-chdir names the original location.
C24_AsClaimed ==
    (/\ out.cmd = "continue-update"
     /\ options.work_dir /\ out.dir = "work"
     /\ get_pull_request_ID(out.branch) \in DOMAIN prs
     /\ out.git # <<>> /\ out.git[1].ret = 0) =>
        /\ out.completed
        /\ head["work"] = options.update_branch
        /\ head["orig"] = out.branch
        /\ chdirFile = "orig"

\* C25, as the specification states it: with a work directory configured, an
\* update records the caller's location in original_dir_path, resets and cleans
\* the work directory first, and runs the merge or rebase only when the reset
\* succeeded.
C25_AsClaimed ==
    (out.cmd = "update" /\ options.work_dir /\ out.dir = "orig" /\ ApiOk(out)) =>
        /\ origDirFile = out.dir
        /\ out.git # <<>>
        /\ out.git[1].cmd = "reset-clean"
        /\ out.git[1].ret # 0 => Len(out.git) = 1 /\ out.err = "CleanWorkDir"

C26_WitnessRemoved ==
    /\ out.cmd = "fetch-all" /\ out.err = "none"
    /\ \E id \in DOMAIN prs :
           out.before.records[id] # FileAbsent /\ records[id] = FileAbsent

\* the position of the first call of the API with this operation, 0 when none
FirstCall(log, op) ==
    IF \E i \in 1..Len(log) : log[i].call.op = op
    THEN CHOOSE i \in 1..Len(log) :
             log[i].call.op = op /\ \A j \in 1..(i - 1) : log[j].call.op # op
    ELSE 0

\* C27: forward closes only the pull request it forwards, and only when
\* command_submit returned a pull request (created, or found in the list): the
\* comment and the close request come after the create request.  When the
\* fetch, the update, the push or the submit fails, no pull request changes
\* state, no branch is deleted and no close request is sent.
C27_ClosedOnlyAfterSubmit ==
    [][out'.cmd = "forward" =>
          /\ \A id \in DOMAIN prs :
                 prs'[id].state # prs[id].state =>
                     /\ id = out'.id
                     /\ out'.result \in {"created", "found"}
          /\ \A i \in 1..Len(out'.api) :
                 out'.api[i].call.op \in {"comment", "close"} =>
                     /\ out'.result \in {"created", "found"}
                     /\ FirstCall(out'.api, "create") \in 1..(i - 1)
          /\ out'.result = "none" =>
                 /\ out'.err # "none"
                 /\ \A id \in DOMAIN prs : prs'[id].state = prs[id].state
                 /\ \A b \in Branches : branches[b] # 0 => branches'[b] # 0
                 /\ \A i \in 1..Len(out'.git) : out'.git[i].cmd # "branch-D"]_vars

\* forward ran to its end: submitted, then closed, then the branch deleted
C27_Witness ==
    /\ out.cmd = "forward" /\ out.err = "none"
    /\ out.result = "created"
    /\ prs[out.id].state = "closed"
    /\ branches[BranchOf(out.id)] = 0

\* the push of forward failed after the fetch and the update
C27_WitnessPushFailed ==
    /\ out.cmd = "forward" /\ out.err = "PushFailed"
    /\ prs[out.id].state = "open"
    /\ branches[BranchOf(out.id)] # 0

====
